---- MODULE Spec2Model ----
(***************************************************************************)
(* Vector data types of the segment crate (data_types/vectors.rs) and the  *)
(* internal point-operation message builders of the collection crate       *)
(* (shards/conversions.rs).                                                *)
(*                                                                         *)
(* Every operation is a pure function.  A behaviour starts with a value    *)
(* supplied by a caller (input) and applies one function per step to the   *)
(* value at hand; a function that returns a value of another type enables  *)
(* the functions of that type, so round trips are chains of two calls.     *)
(*                                                                         *)
(* Rust enums are records with a tag field and one payload field per       *)
(* variant; Option is Some(val) / None; Result is Ok(ok) / Err(err); a     *)
(* panic is the record Panic(err).  HashMap<String, T> and NamedVectors    *)
(* are functions whose domain is the set of keys.                          *)
(***************************************************************************)
EXTENDS Integers, Sequences, FiniteSets, TLC

VARIABLES
    input,   \* the value supplied by the caller
    itype,   \* its Rust type
    calls,   \* names of the functions applied so far, oldest first
    arg,     \* the other arguments of the last call
    value,   \* the value at hand: the input, then the last return value
    vtype    \* its Rust type, "Panic" when the last call panicked

vars == <<input, itype, calls, arg, value, vtype>>

---------------------------------------------------------------------------
(* Bounds of the model *)

\* longest dense vector
MaxDim == 1
\* most explicit entries of a sparse vector
MaxNnz == 1
\* most entries of a named vector collection / VectorStruct::Multi
MaxEntries == 2
\* most named fields of a BatchVectorStruct::Multi
MaxFields == 2
\* most points of a batch, and largest num_records
MaxRecords == 2
\* most ids of an explicit point-id list
MaxIds == 2
\* longest chain of calls
MaxCalls == 2

\* f32 components, two distinguishable values
Elems == {1, 2}
\* dimension indices of sparse vectors
SparseIndices == {0, 3}
\* vector field names, the default name among them
DEFAULT_VECTOR_NAME == ""
NameSet == {DEFAULT_VECTOR_NAME, "image", "text"}

BoundedSeq(S, n) == UNION {[1..k -> S] : k \in 0..n}

---------------------------------------------------------------------------
(* Option, Result, panic *)

None == [tag |-> "None"]
Some(v) == [tag |-> "Some", val |-> v]
Ok(v) == [tag |-> "Ok", ok |-> v]
Err(e) == [tag |-> "Err", err |-> e]
Panic(e) == [tag |-> "Panic", err |-> e]

WrongSparse == "WrongSparse"

---------------------------------------------------------------------------
(* Vector, VectorRef *)

VectorType == BoundedSeq(Elems, MaxDim)

\* sparse::common::sparse_vector::SparseVector: indices unique and ascending,
\* one value per index
SparseVector ==
    UNION {{[indices |-> i, values |-> v] :
                i \in {s \in [1..k -> SparseIndices] :
                          \A a, b \in 1..k : a < b => s[a] < s[b]},
                v \in [1..k -> Elems]} : k \in 0..MaxNnz}

Vector_Dense(v) == [tag |-> "Dense", dense |-> v]
Vector_Sparse(s) == [tag |-> "Sparse", sparse |-> s]

Vector == {Vector_Dense(v) : v \in VectorType} \cup {Vector_Sparse(s) : s \in SparseVector}

VectorRef_Dense(v) == [tag |-> "Dense", dense |-> v]
VectorRef_Sparse(s) == [tag |-> "Sparse", sparse |-> s]

VectorRef == {VectorRef_Dense(v) : v \in VectorType} \cup {VectorRef_Sparse(s) : s \in SparseVector}

Vector_to_vec_ref(self) ==
    IF self.tag = "Dense" THEN VectorRef_Dense(self.dense) ELSE VectorRef_Sparse(self.sparse)

VectorRef_to_vec(self) ==
    IF self.tag = "Dense" THEN Vector_Dense(self.dense) ELSE Vector_Sparse(self.sparse)

\* impl TryFrom<VectorRef> for &[VectorElementType]
TryFrom_VectorRef_for_slice(v) ==
    IF v.tag = "Dense" THEN Ok(v.dense) ELSE Err(WrongSparse)

\* impl TryFrom<VectorRef> for &SparseVector
TryFrom_VectorRef_for_SparseVector(v) ==
    IF v.tag = "Dense" THEN Err(WrongSparse) ELSE Ok(v.sparse)

BadTryFrom_Vector_for_VectorType(v) ==
    IF v.tag = "Dense" THEN Ok(v.dense) ELSE Ok(<<>>)

\* impl TryFrom<Vector> for VectorType
TryFrom_Vector_for_VectorType(v) ==
    IF v.tag = "Dense" THEN Ok(v.dense) ELSE Err(WrongSparse)

\* impl TryFrom<Vector> for SparseVector
TryFrom_Vector_for_SparseVector(v) ==
    IF v.tag = "Dense" THEN Err(WrongSparse) ELSE Ok(v.sparse)

\* impl From<&Vector> for VectorRef
From_Vector_for_VectorRef(val) ==
    IF val.tag = "Dense" THEN VectorRef_Dense(val.dense) ELSE VectorRef_Sparse(val.sparse)

\* impl From<&VectorType> for VectorRef
From_VectorType_for_VectorRef(val) == VectorRef_Dense(val)

VectorRef_len(self) ==
    IF self.tag = "Dense" THEN Len(self.dense) ELSE Len(self.sparse.indices)

VectorRef_is_empty(self) == VectorRef_len(self) = 0

\* impl TryInto<&[VectorElementType]> for &Vector
TryInto_slice_for_Vector(self) ==
    IF self.tag = "Dense" THEN Ok(self.dense) ELSE Err(WrongSparse)

\* impl TryInto<&SparseVector> for &Vector
TryInto_SparseVector_for_Vector(self) ==
    IF self.tag = "Dense" THEN Err(WrongSparse) ELSE Ok(self.sparse)

---------------------------------------------------------------------------
(* Named vector collection (named_vectors.rs): name -> Vector *)

NamedVectors ==
    UNION {[D -> Vector] : D \in {S \in SUBSET NameSet : Cardinality(S) <= MaxEntries}}

NamedVectors_default == [n \in {} |-> Vector_Dense(<<>>)]

NamedVectors_len(self) == Cardinality(DOMAIN self)

NamedVectors_contains_key(self, key) == key \in DOMAIN self

\* lookup by name: a miss is None, never an empty vector
NamedVectors_get(self, key) ==
    IF key \in DOMAIN self THEN Some(Vector_to_vec_ref(self[key])) ELSE None

\* flattening into an owned name -> Vector mapping
NamedVectors_into_owned_map(self) == [n \in DOMAIN self |-> VectorRef_to_vec(Vector_to_vec_ref(self[n]))]

NamedVectors_from_map(map) == [n \in DOMAIN map |-> map[n]]

\* NamedVectors::from([(name, dense vector)])
NamedVectors_from_pair(name, vec) == [n \in {name} |-> Vector_Dense(vec)]

BadDefault_vector(vec) == NamedVectors_from_pair("default", vec)

default_vector(vec) == NamedVectors_from_pair(DEFAULT_VECTOR_NAME, vec)

---------------------------------------------------------------------------
(* VectorStruct *)

VectorStruct_Single(v) == [tag |-> "Single", single |-> v]
VectorStruct_Multi(m) == [tag |-> "Multi", multi |-> m]

VectorStruct ==
    {VectorStruct_Single(v) : v \in VectorType} \cup {VectorStruct_Multi(m) : m \in NamedVectors}

VectorElems(v) == IF v.tag = "Dense" THEN Len(v.dense) ELSE Len(v.sparse.indices)

BadVectorStruct_is_empty(self) ==
    IF self.tag = "Single"
    THEN Len(self.single) = 0
    ELSE \E n \in DOMAIN self.multi :
            IF self.multi[n].tag = "Dense"
            THEN Len(self.multi[n].dense) = 0
            ELSE Len(self.multi[n].sparse.indices) = 0

VectorStruct_is_empty(self) ==
    IF self.tag = "Single"
    THEN Len(self.single) = 0
    ELSE \A n \in DOMAIN self.multi :
            IF self.multi[n].tag = "Dense"
            THEN Len(self.multi[n].dense) = 0
            ELSE Len(self.multi[n].sparse.indices) = 0

\* the unwrap() of an Option and of a Result propagate as Panic
VectorStruct_from_single(v) ==
    LET found == NamedVectors_get(v, DEFAULT_VECTOR_NAME)
    IN  IF found.tag = "None"
        THEN Panic("None")
        ELSE LET vector == TryFrom_VectorRef_for_slice(found.val)
             IN  IF vector.tag = "Err"
                 THEN Panic(vector.err)
                 ELSE VectorStruct_Single(vector.ok)

BadVectorStruct_from(v) ==
    IF NamedVectors_contains_key(v, DEFAULT_VECTOR_NAME)
    THEN VectorStruct_from_single(v)
    ELSE VectorStruct_Multi(NamedVectors_into_owned_map(v))

\* impl From<NamedVectors> for VectorStruct
VectorStruct_from(v) ==
    IF NamedVectors_len(v) = 1 /\ NamedVectors_contains_key(v, DEFAULT_VECTOR_NAME)
    THEN VectorStruct_from_single(v)
    ELSE VectorStruct_Multi(NamedVectors_into_owned_map(v))

BadVectorStruct_get(self, name) ==
    IF self.tag = "Single"
    THEN Some(From_VectorType_for_VectorRef(self.single))
    ELSE IF name \in DOMAIN self.multi
         THEN Some(From_Vector_for_VectorRef(self.multi[name]))
         ELSE None

VectorStruct_get(self, name) ==
    IF self.tag = "Single"
    THEN IF name = DEFAULT_VECTOR_NAME
         THEN Some(From_VectorType_for_VectorRef(self.single))
         ELSE None
    ELSE IF name \in DOMAIN self.multi
         THEN Some(From_Vector_for_VectorRef(self.multi[name]))
         ELSE None

VectorStruct_into_all_vectors(self) ==
    IF self.tag = "Single"
    THEN default_vector(self.single)
    ELSE NamedVectors_from_map(self.multi)

---------------------------------------------------------------------------
(* NamedVectorStruct *)

NamedVector == [name : NameSet, vector : VectorType]
NamedSparseVector == [name : NameSet, vector : SparseVector]

NamedVectorStruct_Default(v) == [tag |-> "Default", default |-> v]
NamedVectorStruct_Named(v) == [tag |-> "Named", named |-> v]
NamedVectorStruct_Sparse(v) == [tag |-> "Sparse", sparse |-> v]

NamedVectorStruct ==
    {NamedVectorStruct_Default(v) : v \in VectorType}
        \cup {NamedVectorStruct_Named(v) : v \in NamedVector}
        \cup {NamedVectorStruct_Sparse(v) : v \in NamedSparseVector}

BadNamedVectorStruct_get_name(self) ==
    CASE self.tag = "Default" -> DEFAULT_VECTOR_NAME
      [] self.tag = "Named" -> self.named.name
      [] self.tag = "Sparse" -> DEFAULT_VECTOR_NAME

\* impl Named for NamedVectorStruct
NamedVectorStruct_get_name(self) ==
    CASE self.tag = "Default" -> DEFAULT_VECTOR_NAME
      [] self.tag = "Named" -> self.named.name
      [] self.tag = "Sparse" -> self.sparse.name

---------------------------------------------------------------------------
(* BatchVectorStruct *)

\* the vectors batches are built from: dense and sparse, empty and not
BatchVector ==
    {Vector_Dense(<<>>), Vector_Dense(<<1>>),
     Vector_Sparse([indices |-> <<3>>, values |-> <<2>>])}

BatchVectorStruct_Single(vectors) == [tag |-> "Single", single |-> vectors]
BatchVectorStruct_Multi(named_vectors) == [tag |-> "Multi", multi |-> named_vectors]

\* Multi batches hold position-aligned lists: one list per field name, all of
\* the same length (the caller rejects anything else before transposing)
BatchVectorStruct ==
    {BatchVectorStruct_Single(l) : l \in BoundedSeq(VectorType, MaxRecords)}
        \cup UNION {{BatchVectorStruct_Multi(m) : m \in [D -> [1..k -> BatchVector]]} :
                        D \in {S \in SUBSET NameSet : Cardinality(S) <= MaxFields},
                        k \in 0..MaxRecords}

\* common::utils::transpose_map_into_named_vector: one collection per point
\* index, holding for every field name the vector at that index of its list
transpose_map_into_named_vector(map) ==
    LET k == IF DOMAIN map = {} THEN 0 ELSE Len(map[CHOOSE n \in DOMAIN map : TRUE])
    IN  [i \in 1..k |-> [n \in DOMAIN map |-> map[n][i]]]

BadBatchVectorStruct_into_all_vectors(self, num_records) ==
    IF self.tag = "Single"
    THEN [i \in 1..Len(self.single) |-> default_vector(self.single[i])]
    ELSE [i \in 1..num_records |-> NamedVectors_default]

UnguardedBatchVectorStruct_into_all_vectors(self, num_records) ==
    IF self.tag = "Single"
    THEN [i \in 1..Len(self.single) |-> default_vector(self.single[i])]
    ELSE transpose_map_into_named_vector(self.multi)

TruncatingBatchVectorStruct_into_all_vectors(self, num_records) ==
    IF self.tag = "Single"
    THEN [i \in 1..(IF num_records < Len(self.single) THEN num_records ELSE Len(self.single))
            |-> default_vector(self.single[i])]
    ELSE IF DOMAIN self.multi = {}
         THEN [i \in 1..num_records |-> NamedVectors_default]
         ELSE transpose_map_into_named_vector(self.multi)

BatchVectorStruct_into_all_vectors(self, num_records) ==
    IF self.tag = "Single"
    THEN [i \in 1..Len(self.single) |-> default_vector(self.single[i])]
    ELSE IF DOMAIN self.multi = {}
         THEN [i \in 1..num_records |-> NamedVectors_default]
         ELSE transpose_map_into_named_vector(self.multi)

---------------------------------------------------------------------------
(* Internal point-operation messages (shards/conversions.rs) *)

\* segment::types::PointIdType, numeric ids
PointIdType == {1, 2}
\* segment::types::Filter, opaque
Filter == {"filter_a", "filter_b"}
\* segment::types::Payload, opaque
Payload == {"payload"}
PayloadKeys == {<<"key">>}
ShardId == {0}
CollectionNames == {"collection"}
WriteOrdering == {"Weak", "Strong"}

OptionOf(S) == {None} \cup {Some(x) : x \in S}

\* conversions of the api crate into the wire types
PointId_from(id) == [point_id_options |-> id]
Filter_from(filter) == [grpc_filter |-> filter]
payload_to_proto(payload) == [grpc_payload |-> payload]
write_ordering_to_proto(ordering) == [grpc_ordering |-> ordering]

PointIds_into(points) == [i \in 1..Len(points) |-> PointId_from(points[i])]

PointsSelectorOneOf_Points(ids) == [tag |-> "Points", points |-> [ids |-> ids]]
PointsSelectorOneOf_Filter(filter) == [tag |-> "Filter", filter |-> filter]
PointsSelector(one_of) == [points_selector_one_of |-> Some(one_of)]

FilterSelector(filter) == PointsSelector(PointsSelectorOneOf_Filter(Filter_from(filter)))

\* filter.map(|filter| PointsSelector { .. Filter(filter.into()) })
map_FilterSelector(filter) ==
    IF filter.tag = "Some" THEN Some(FilterSelector(filter.val)) ELSE None

\* ordering.map(write_ordering_to_proto)
map_write_ordering_to_proto(ordering) ==
    IF ordering.tag = "Some" THEN Some(write_ordering_to_proto(ordering.val)) ELSE None

SetPayload == [payload : Payload,
               points : OptionOf(BoundedSeq(PointIdType, MaxIds)),
               filter : OptionOf(Filter)]

DeletePayload == [keys : PayloadKeys,
                  points : OptionOf(BoundedSeq(PointIdType, MaxIds)),
                  filter : OptionOf(Filter)]

FilterFirst_internal_set_payload(shard_id, collection_name, set_payload, wait, ordering) ==
    LET selected_points ==
            IF set_payload.filter.tag = "None" /\ set_payload.points.tag = "Some"
            THEN PointIds_into(set_payload.points.val)
            ELSE <<>>
        points_selector ==
            IF set_payload.filter.tag = "Some"
            THEN Some(FilterSelector(set_payload.filter.val))
            ELSE IF set_payload.points.tag = "Some"
                 THEN Some(PointsSelector(PointsSelectorOneOf_Points(selected_points)))
                 ELSE None
    IN  [shard_id |-> shard_id,
         set_payload_points |-> Some(
            [collection_name |-> collection_name,
             wait |-> Some(wait),
             payload |-> payload_to_proto(set_payload.payload),
             points |-> selected_points,
             points_selector |-> points_selector,
             ordering |-> map_write_ordering_to_proto(ordering)])]

internal_set_payload(shard_id, collection_name, set_payload, wait, ordering) ==
    LET selected_points ==
            IF set_payload.points.tag = "Some"
            THEN PointIds_into(set_payload.points.val)
            ELSE <<>>
        points_selector ==
            IF set_payload.points.tag = "Some"
            THEN Some(PointsSelector(PointsSelectorOneOf_Points(selected_points)))
            ELSE map_FilterSelector(set_payload.filter)
    IN  [shard_id |-> shard_id,
         set_payload_points |-> Some(
            [collection_name |-> collection_name,
             wait |-> Some(wait),
             payload |-> payload_to_proto(set_payload.payload),
             points |-> selected_points,
             points_selector |-> points_selector,
             ordering |-> map_write_ordering_to_proto(ordering)])]

EmptyListIsNoList_internal_delete_payload(shard_id, collection_name, delete_payload, wait, ordering) ==
    LET listed == delete_payload.points.tag = "Some" /\ delete_payload.points.val # <<>>
        selected_points ==
            IF listed THEN PointIds_into(delete_payload.points.val) ELSE <<>>
        points_selector ==
            IF listed
            THEN Some(PointsSelector(PointsSelectorOneOf_Points(selected_points)))
            ELSE map_FilterSelector(delete_payload.filter)
    IN  [shard_id |-> shard_id,
         delete_payload_points |-> Some(
            [collection_name |-> collection_name,
             wait |-> Some(wait),
             keys |-> delete_payload.keys,
             points |-> selected_points,
             points_selector |-> points_selector,
             ordering |-> map_write_ordering_to_proto(ordering)])]

internal_delete_payload(shard_id, collection_name, delete_payload, wait, ordering) ==
    LET selected_points ==
            IF delete_payload.points.tag = "Some"
            THEN PointIds_into(delete_payload.points.val)
            ELSE <<>>
        points_selector ==
            IF delete_payload.points.tag = "Some"
            THEN Some(PointsSelector(PointsSelectorOneOf_Points(selected_points)))
            ELSE map_FilterSelector(delete_payload.filter)
    IN  [shard_id |-> shard_id,
         delete_payload_points |-> Some(
            [collection_name |-> collection_name,
             wait |-> Some(wait),
             keys |-> delete_payload.keys,
             points |-> selected_points,
             points_selector |-> points_selector,
             ordering |-> map_write_ordering_to_proto(ordering)])]

\* takes the id list alone; the message has the structured selector only
internal_clear_payload(shard_id, collection_name, points, wait, ordering) ==
    [shard_id |-> shard_id,
     clear_payload_points |-> Some(
        [collection_name |-> collection_name,
         wait |-> Some(wait),
         points |-> Some(PointsSelector(PointsSelectorOneOf_Points(PointIds_into(points)))),
         ordering |-> map_write_ordering_to_proto(ordering)])]

internal_clear_payload_by_filter(shard_id, collection_name, filter, wait, ordering) ==
    [shard_id |-> shard_id,
     clear_payload_points |-> Some(
        [collection_name |-> collection_name,
         wait |-> Some(wait),
         points |-> Some(FilterSelector(filter)),
         ordering |-> map_write_ordering_to_proto(ordering)])]

\* segment::types::PayloadSchemaType, the variants the match names
PayloadSchemaType == {"Keyword", "Integer", "Float", "Geo", "Text"}
\* segment::types::TextIndexParams, opaque
TextIndexParams == {"text_params_a", "text_params_b"}
PayloadSchemaParams_Text(params) == [tag |-> "Text", text |-> params]
PayloadSchemaParams == {PayloadSchemaParams_Text(p) : p \in TextIndexParams}

PayloadFieldSchema_FieldType(t) == [tag |-> "FieldType", field_type |-> t]
PayloadFieldSchema_FieldParams(p) == [tag |-> "FieldParams", field_params |-> p]
PayloadFieldSchema ==
    {PayloadFieldSchema_FieldType(t) : t \in PayloadSchemaType}
        \cup {PayloadFieldSchema_FieldParams(p) : p \in PayloadSchemaParams}

FieldNames == {"field_a", "field_b"}
CreateIndex == [field_name : FieldNames, field_schema : OptionOf(PayloadFieldSchema)]

\* api::grpc::qdrant::FieldType::X as i32
FieldType_as_i32(x) == [grpc_field_type |-> x]
\* text_index_params.into(), the wire form of the index parameters
TextIndexParams_into(params) == [grpc_text_index_params |-> params]

GeoAsFloat_create_index_field(field_schema) ==
    IF field_schema.tag = "FieldType"
    THEN [field_type |->
            CASE field_schema.field_type = "Keyword" -> FieldType_as_i32("Keyword")
              [] field_schema.field_type = "Integer" -> FieldType_as_i32("Integer")
              [] field_schema.field_type = "Float" -> FieldType_as_i32("Float")
              [] field_schema.field_type = "Geo" -> FieldType_as_i32("Float")
              [] field_schema.field_type = "Text" -> FieldType_as_i32("Text"),
          field_params |-> None]
    ELSE [field_type |-> FieldType_as_i32("Text"),
          field_params |-> Some(TextIndexParams_into(field_schema.field_params.text))]

\* the closure |field_schema| match field_schema { .. }: the pair
\* (field type, index parameters) of a field schema
create_index_field(field_schema) ==
    IF field_schema.tag = "FieldType"
    THEN [field_type |->
            CASE field_schema.field_type = "Keyword" -> FieldType_as_i32("Keyword")
              [] field_schema.field_type = "Integer" -> FieldType_as_i32("Integer")
              [] field_schema.field_type = "Float" -> FieldType_as_i32("Float")
              [] field_schema.field_type = "Geo" -> FieldType_as_i32("Geo")
              [] field_schema.field_type = "Text" -> FieldType_as_i32("Text"),
          field_params |-> None]
    ELSE [field_type |-> FieldType_as_i32("Text"),
          field_params |-> Some(TextIndexParams_into(field_schema.field_params.text))]

internal_create_index(shard_id, collection_name, create_index, wait, ordering) ==
    LET pair ==
            IF create_index.field_schema.tag = "Some"
            THEN LET mapped == create_index_field(create_index.field_schema.val)
                 IN  [field_type |-> Some(mapped.field_type),
                      field_index_params |-> mapped.field_params]
            ELSE [field_type |-> None, field_index_params |-> None]
    IN  [shard_id |-> shard_id,
         create_field_index_collection |-> Some(
            [collection_name |-> collection_name,
             wait |-> Some(wait),
             field_name |-> create_index.field_name,
             field_type |-> pair.field_type,
             field_index_params |-> pair.field_index_params,
             ordering |-> map_write_ordering_to_proto(ordering)])]

CreateIndexCall ==
    [shard_id : OptionOf(ShardId), collection_name : CollectionNames,
     create_index : CreateIndex, wait : BOOLEAN, ordering : OptionOf(WriteOrdering)]

\* the arguments of one call of a payload conversion
SetPayloadCall ==
    [shard_id : OptionOf(ShardId), collection_name : CollectionNames,
     set_payload : SetPayload, wait : BOOLEAN, ordering : OptionOf(WriteOrdering)]

DeletePayloadCall ==
    [shard_id : OptionOf(ShardId), collection_name : CollectionNames,
     delete_payload : DeletePayload, wait : BOOLEAN, ordering : OptionOf(WriteOrdering)]

ClearPayloadCall ==
    [shard_id : OptionOf(ShardId), collection_name : CollectionNames,
     points : BoundedSeq(PointIdType, MaxIds), wait : BOOLEAN,
     ordering : OptionOf(WriteOrdering)]

ClearPayloadByFilterCall ==
    [shard_id : OptionOf(ShardId), collection_name : CollectionNames,
     filter : Filter, wait : BOOLEAN, ordering : OptionOf(WriteOrdering)]

---------------------------------------------------------------------------
(* The state machine *)

NoArg == [tag |-> "None"]

Given(type, x) ==
    /\ itype = type
    /\ input = x
    /\ calls = <<>>
    /\ arg = NoArg
    /\ value = x
    /\ vtype = type

Init ==
    \/ \E x \in Vector : Given("Vector", x)
    \/ \E x \in VectorRef : Given("VectorRef", x)
    \/ \E x \in NamedVectors : Given("NamedVectors", x)
    \/ \E x \in VectorStruct : Given("VectorStruct", x)
    \/ \E x \in NamedVectorStruct : Given("NamedVectorStruct", x)
    \/ \E x \in BatchVectorStruct : Given("BatchVectorStruct", x)
    \/ \E x \in SetPayloadCall : Given("SetPayloadCall", x)
    \/ \E x \in DeletePayloadCall : Given("DeletePayloadCall", x)
    \/ \E x \in ClearPayloadCall : Given("ClearPayloadCall", x)
    \/ \E x \in ClearPayloadByFilterCall : Given("ClearPayloadByFilterCall", x)
    \/ \E x \in CreateIndexCall : Given("CreateIndexCall", x)

\* one call: function `name` applied to a value of type `on`, with the other
\* arguments `a`, returning `result` of type `type`
Call(name, on, a, result, type) ==
    /\ vtype = on
    /\ Len(calls) < MaxCalls
    /\ calls' = Append(calls, name)
    /\ arg' = a
    /\ value' = result
    /\ vtype' = IF result.tag = "Panic" THEN "Panic" ELSE type
    /\ UNCHANGED <<input, itype>>

\* a call whose result is not a tagged value and cannot panic
CallPlain(name, on, a, result, type) ==
    /\ vtype = on
    /\ Len(calls) < MaxCalls
    /\ calls' = Append(calls, name)
    /\ arg' = a
    /\ value' = result
    /\ vtype' = type
    /\ UNCHANGED <<input, itype>>

VectorToVecRef ==
    Call("Vector::to_vec_ref", "Vector", NoArg, Vector_to_vec_ref(value), "VectorRef")

VectorRefToVec ==
    Call("VectorRef::to_vec", "VectorRef", NoArg, VectorRef_to_vec(value), "Vector")

VectorRefTryIntoSlice ==
    Call("TryFrom<VectorRef> for &[VectorElementType]", "VectorRef", NoArg,
         TryFrom_VectorRef_for_slice(value), "Result<&[VectorElementType]>")

VectorRefTryIntoSparse ==
    Call("TryFrom<VectorRef> for &SparseVector", "VectorRef", NoArg,
         TryFrom_VectorRef_for_SparseVector(value), "Result<&SparseVector>")

VectorTryIntoVectorType ==
    Call("TryFrom<Vector> for VectorType", "Vector", NoArg,
         TryFrom_Vector_for_VectorType(value), "Result<VectorType>")

VectorTryIntoSparseVector ==
    Call("TryFrom<Vector> for SparseVector", "Vector", NoArg,
         TryFrom_Vector_for_SparseVector(value), "Result<SparseVector>")

BorrowedVectorTryIntoSlice ==
    Call("TryInto<&[VectorElementType]> for &Vector", "Vector", NoArg,
         TryInto_slice_for_Vector(value), "Result<&[VectorElementType]>")

BorrowedVectorTryIntoSparse ==
    Call("TryInto<&SparseVector> for &Vector", "Vector", NoArg,
         TryInto_SparseVector_for_Vector(value), "Result<&SparseVector>")

VectorStructFrom ==
    Call("VectorStruct::from", "NamedVectors", NoArg, VectorStruct_from(value), "VectorStruct")

VectorStructIntoAllVectors ==
    CallPlain("VectorStruct::into_all_vectors", "VectorStruct", NoArg,
              VectorStruct_into_all_vectors(value), "NamedVectors")

VectorStructGet ==
    \E name \in NameSet :
        Call("VectorStruct::get", "VectorStruct", [name |-> name],
             VectorStruct_get(value, name), "Option<VectorRef>")

VectorStructIsEmpty ==
    CallPlain("VectorStruct::is_empty", "VectorStruct", NoArg,
              VectorStruct_is_empty(value), "bool")

NamedVectorStructGetName ==
    CallPlain("NamedVectorStruct::get_name", "NamedVectorStruct", NoArg,
              NamedVectorStruct_get_name(value), "&str")

BatchVectorStructIntoAllVectors ==
    \E num_records \in 0..MaxRecords :
        CallPlain("BatchVectorStruct::into_all_vectors", "BatchVectorStruct",
                  [num_records |-> num_records],
                  BatchVectorStruct_into_all_vectors(value, num_records),
                  "Vec<NamedVectors>")

InternalSetPayload ==
    CallPlain("internal_set_payload", "SetPayloadCall", NoArg,
              internal_set_payload(value.shard_id, value.collection_name, value.set_payload,
                                   value.wait, value.ordering),
              "SetPayloadPointsInternal")

InternalDeletePayload ==
    CallPlain("internal_delete_payload", "DeletePayloadCall", NoArg,
              internal_delete_payload(value.shard_id, value.collection_name,
                                      value.delete_payload, value.wait, value.ordering),
              "DeletePayloadPointsInternal")

InternalClearPayload ==
    CallPlain("internal_clear_payload", "ClearPayloadCall", NoArg,
              internal_clear_payload(value.shard_id, value.collection_name, value.points,
                                     value.wait, value.ordering),
              "ClearPayloadPointsInternal")

InternalClearPayloadByFilter ==
    CallPlain("internal_clear_payload_by_filter", "ClearPayloadByFilterCall", NoArg,
              internal_clear_payload_by_filter(value.shard_id, value.collection_name,
                                               value.filter, value.wait, value.ordering),
              "ClearPayloadPointsInternal")

InternalCreateIndex ==
    CallPlain("internal_create_index", "CreateIndexCall", NoArg,
              internal_create_index(value.shard_id, value.collection_name,
                                    value.create_index, value.wait, value.ordering),
              "CreateFieldIndexCollectionInternal")

Next ==
    \/ VectorToVecRef
    \/ VectorRefToVec
    \/ VectorRefTryIntoSlice
    \/ VectorRefTryIntoSparse
    \/ VectorTryIntoVectorType
    \/ VectorTryIntoSparseVector
    \/ BorrowedVectorTryIntoSlice
    \/ BorrowedVectorTryIntoSparse
    \/ VectorStructFrom
    \/ VectorStructIntoAllVectors
    \/ VectorStructGet
    \/ VectorStructIsEmpty
    \/ NamedVectorStructGetName
    \/ BatchVectorStructIntoAllVectors
    \/ InternalSetPayload
    \/ InternalDeletePayload
    \/ InternalClearPayload
    \/ InternalClearPayloadByFilter
    \/ InternalCreateIndex

Spec == Init /\ [][Next]_vars

---------------------------------------------------------------------------
(* Properties *)

After(names) == calls = names

\* a named vector collection with exactly one entry, under the default name
SingleDefault(v) == DOMAIN v = {DEFAULT_VECTOR_NAME}

FromThenExpand == <<"VectorStruct::from", "VectorStruct::into_all_vectors">>
ExpandThenFrom == <<"VectorStruct::into_all_vectors", "VectorStruct::from">>

\* C1: for a collection with exactly one entry under the default name, dense
\* or sparse, VectorStruct::from completes, and into_all_vectors on its result
\* yields a collection identical to the original.
C1_SingleDefaultRoundTrip ==
    (itype = "NamedVectors" /\ SingleDefault(input)) =>
        /\ After(<<"VectorStruct::from">>) => vtype = "VectorStruct"
        /\ After(FromThenExpand) => (vtype = "NamedVectors" /\ value = input)

\* C2: a collection that is not a single default-named entry becomes the Multi
\* shape with the same name -> vector mapping, and into_all_vectors on that
\* yields a mapping identical to the original.
C2_MultiRoundTrip ==
    (itype = "NamedVectors" /\ ~SingleDefault(input)) =>
        /\ After(<<"VectorStruct::from">>) =>
              /\ vtype = "VectorStruct"
              /\ value.tag = "Multi"
              /\ value.multi = input
        /\ After(FromThenExpand) => (vtype = "NamedVectors" /\ value = input)

\* two entries, the default name among them, after the round trip
C2_Witness ==
    /\ itype = "NamedVectors"
    /\ Cardinality(DOMAIN input) = 2
    /\ DEFAULT_VECTOR_NAME \in DOMAIN input
    /\ After(FromThenExpand)
    /\ value = input

IsWrongSparse(r) == r.tag = "Err" /\ r.err = WrongSparse

\* what a narrowing conversion to the dense facet has to return for v
DenseFacet(v, r) ==
    IF v.tag = "Dense" THEN r.tag = "Ok" /\ r.ok = v.dense ELSE IsWrongSparse(r)

\* what a narrowing conversion to the sparse facet has to return for v
SparseFacet(v, r) ==
    IF v.tag = "Sparse" THEN r.tag = "Ok" /\ r.ok = v.sparse ELSE IsWrongSparse(r)

\* C3: each of the six narrowing conversions of Vector, &Vector and VectorRef
\* returns WrongSparse, never a vector, when the value holds the other
\* variant, and exactly the held data when it holds the requested one.
C3_VariantSafety ==
    /\ (itype = "VectorRef" /\ After(<<"TryFrom<VectorRef> for &[VectorElementType]">>))
            => DenseFacet(input, value)
    /\ (itype = "VectorRef" /\ After(<<"TryFrom<VectorRef> for &SparseVector">>))
            => SparseFacet(input, value)
    /\ (itype = "Vector" /\ After(<<"TryFrom<Vector> for VectorType">>))
            => DenseFacet(input, value)
    /\ (itype = "Vector" /\ After(<<"TryFrom<Vector> for SparseVector">>))
            => SparseFacet(input, value)
    /\ (itype = "Vector" /\ After(<<"TryInto<&[VectorElementType]> for &Vector">>))
            => DenseFacet(input, value)
    /\ (itype = "Vector" /\ After(<<"TryInto<&SparseVector> for &Vector">>))
            => SparseFacet(input, value)

\* a non-empty sparse vector asked for its dense facet
C3_Witness ==
    /\ itype = "Vector"
    /\ input.tag = "Sparse"
    /\ Len(input.sparse.indices) > 0
    /\ After(<<"TryFrom<Vector> for VectorType">>)
    /\ IsWrongSparse(value)

\* a Multi batch of k points: at least one field, every list of length k
AlignedBatch(b, k) ==
    /\ b.tag = "Multi"
    /\ DOMAIN b.multi # {}
    /\ \A n \in DOMAIN b.multi : Len(b.multi[n]) = k

\* C4: a Multi batch of k points with m >= 1 fields, each a list of length k,
\* transposes under into_all_vectors(k) to exactly k collections, each with
\* exactly the m field names and collections[i][name] = lists[name][i].
C4_BatchTransposition ==
    (/\ itype = "BatchVectorStruct"
     /\ After(<<"BatchVectorStruct::into_all_vectors">>)
     /\ AlignedBatch(input, arg.num_records)) =>
        /\ Len(value) = arg.num_records
        /\ \A i \in 1..arg.num_records :
              /\ DOMAIN value[i] = DOMAIN input.multi
              /\ \A n \in DOMAIN input.multi : value[i][n] = input.multi[n][i]

\* two points, two fields, the two points of a field differing
C4_Witness ==
    /\ itype = "BatchVectorStruct"
    /\ After(<<"BatchVectorStruct::into_all_vectors">>)
    /\ AlignedBatch(input, arg.num_records)
    /\ arg.num_records = 2
    /\ Cardinality(DOMAIN input.multi) = 2
    /\ \E n \in DOMAIN input.multi : input.multi[n][1] # input.multi[n][2]
    /\ Len(value) = 2

\* C5: a Multi batch with no field names yields under into_all_vectors(k)
\* exactly k collections, each of them empty, for every k >= 0.
C5_EmptyBatch ==
    (/\ itype = "BatchVectorStruct"
     /\ After(<<"BatchVectorStruct::into_all_vectors">>)
     /\ input.tag = "Multi"
     /\ DOMAIN input.multi = {}) =>
        /\ vtype = "Vec<NamedVectors>"
        /\ Len(value) = arg.num_records
        /\ \A i \in 1..arg.num_records : DOMAIN value[i] = {}

\* no fields, two points
C5_Witness ==
    /\ itype = "BatchVectorStruct"
    /\ After(<<"BatchVectorStruct::into_all_vectors">>)
    /\ input.tag = "Multi"
    /\ DOMAIN input.multi = {}
    /\ arg.num_records = 2
    /\ Len(value) = 2

\* the structured selector of a payload message, and its deprecated flat id
\* field: SetPayloadPoints and DeletePayloadPoints have both (points_selector
\* and points), ClearPayloadPoints has the selector alone (points)
StructuredSelector(msg) ==
    IF "points_selector" \in DOMAIN msg THEN msg.points_selector ELSE msg.points

LegacyFlatIds(msg) ==
    IF "points_selector" \in DOMAIN msg THEN Some(msg.points) ELSE None

IdListSelector(ids) == Some(PointsSelector(PointsSelectorOneOf_Points(PointIds_into(ids))))

\* an operation carrying a non-empty id list together with a filter
BothSupplied(op) ==
    /\ op.points.tag = "Some"
    /\ Len(op.points.val) > 0
    /\ op.filter.tag = "Some"

\* C6 as stated: for the delete-payload, set-payload and clear-payload
\* conversions alike, a non-empty id list supplied with a filter gives the
\* id-list selector and a legacy flat id field equal to the list.  The
\* clear-payload conversion has no filter parameter, its case is any call
\* with a non-empty id list.
C6_AsStated ==
    /\ (After(<<"internal_set_payload">>) /\ BothSupplied(input.set_payload)) =>
          LET msg == value.set_payload_points.val
              ids == input.set_payload.points.val
          IN  /\ StructuredSelector(msg) = IdListSelector(ids)
              /\ LegacyFlatIds(msg) = Some(PointIds_into(ids))
    /\ (After(<<"internal_delete_payload">>) /\ BothSupplied(input.delete_payload)) =>
          LET msg == value.delete_payload_points.val
              ids == input.delete_payload.points.val
          IN  /\ StructuredSelector(msg) = IdListSelector(ids)
              /\ LegacyFlatIds(msg) = Some(PointIds_into(ids))
    /\ (After(<<"internal_clear_payload">>) /\ Len(input.points) > 0) =>
          LET msg == value.clear_payload_points.val
              ids == input.points
          IN  /\ StructuredSelector(msg) = IdListSelector(ids)
              /\ LegacyFlatIds(msg) = Some(PointIds_into(ids))

\* C6, amended: for internal_set_payload and internal_delete_payload a
\* non-empty id list supplied with a filter gives the id-list selector with
\* the supplied ids in order, the filter is not encoded, and the legacy flat
\* id field equals the list.  internal_clear_payload takes an id list and no
\* filter: its message has the id-list selector with the supplied ids in
\* order and no legacy flat id field.
C6_SelectorPrecedence ==
    /\ (After(<<"internal_set_payload">>) /\ BothSupplied(input.set_payload)) =>
          LET msg == value.set_payload_points.val
              ids == input.set_payload.points.val
          IN  /\ msg.points_selector = IdListSelector(ids)
              /\ msg.points = PointIds_into(ids)
    /\ (After(<<"internal_delete_payload">>) /\ BothSupplied(input.delete_payload)) =>
          LET msg == value.delete_payload_points.val
              ids == input.delete_payload.points.val
          IN  /\ msg.points_selector = IdListSelector(ids)
              /\ msg.points = PointIds_into(ids)
    /\ (After(<<"internal_clear_payload">>) /\ Len(input.points) > 0) =>
          LET msg == value.clear_payload_points.val
          IN  /\ msg.points = IdListSelector(input.points)
              /\ DOMAIN msg = {"collection_name", "wait", "points", "ordering"}

\* set-payload with two different ids and a filter, converted
C6_Witness ==
    /\ After(<<"internal_set_payload">>)
    /\ BothSupplied(input.set_payload)
    /\ Len(input.set_payload.points.val) = 2
    /\ input.set_payload.points.val[1] # input.set_payload.points.val[2]
    /\ value.set_payload_points.val.points_selector.val.points_selector_one_of.val.tag = "Points"

\* C7: Single(v) expands to a one-entry collection keyed by the default name
\* and holding Dense(v), and that collection collapses back to Single(v), for
\* every dense vector v, the empty one included.
C7_SingleRoundTrip ==
    (itype = "VectorStruct" /\ input.tag = "Single") =>
        /\ After(<<"VectorStruct::into_all_vectors">>) =>
              /\ DOMAIN value = {DEFAULT_VECTOR_NAME}
              /\ value[DEFAULT_VECTOR_NAME] = Vector_Dense(input.single)
        /\ After(ExpandThenFrom) => (vtype = "VectorStruct" /\ value = input)

\* a non-empty Single, expanded and collapsed again
C7_Witness ==
    /\ itype = "VectorStruct"
    /\ input.tag = "Single"
    /\ Len(input.single) > 0
    /\ After(ExpandThenFrom)
    /\ value = input

\* C8: get_name of Default(v) is the default name; of Named and Sparse it is
\* the carried name, the empty string included.
C8_NameResolution ==
    (itype = "NamedVectorStruct" /\ After(<<"NamedVectorStruct::get_name">>)) =>
        /\ input.tag = "Default" => value = ""
        /\ input.tag = "Named" => value = input.named.name
        /\ input.tag = "Sparse" => value = input.sparse.name

\* a sparse query vector that carries a name other than the default one
C8_Witness ==
    /\ itype = "NamedVectorStruct"
    /\ After(<<"NamedVectorStruct::get_name">>)
    /\ input.tag = "Sparse"
    /\ input.sparse.name # ""
    /\ value = input.sparse.name

\* C9: is_empty of a Multi is true when every entry has zero elements and
\* false when some entry has one or more; of a Single it is the emptiness of
\* its vector.
C9_Emptiness ==
    (itype = "VectorStruct" /\ After(<<"VectorStruct::is_empty">>)) =>
        /\ input.tag = "Single" => (value <=> input.single = <<>>)
        /\ (input.tag = "Multi" /\ \A n \in DOMAIN input.multi : VectorElems(input.multi[n]) = 0)
              => value = TRUE
        /\ (input.tag = "Multi" /\ \E n \in DOMAIN input.multi : VectorElems(input.multi[n]) >= 1)
              => value = FALSE

\* a Multi with an empty entry and a non-empty one
C9_Witness ==
    /\ itype = "VectorStruct"
    /\ After(<<"VectorStruct::is_empty">>)
    /\ input.tag = "Multi"
    /\ \E n \in DOMAIN input.multi : VectorElems(input.multi[n]) = 0
    /\ \E n \in DOMAIN input.multi : VectorElems(input.multi[n]) >= 1
    /\ value = FALSE

\* C10: get(name) on Single(v) is a dense view of v for the default name and a
\* miss for every other name; on Multi(m) it is a view of m[name] when name is
\* a key of m and a miss otherwise.
C10_Get ==
    (itype = "VectorStruct" /\ After(<<"VectorStruct::get">>)) =>
        /\ (input.tag = "Single" /\ arg.name = "") =>
              (value.tag = "Some" /\ value.val = VectorRef_Dense(input.single))
        /\ (input.tag = "Single" /\ arg.name # "") => value.tag = "None"
        /\ (input.tag = "Multi" /\ arg.name \in DOMAIN input.multi) =>
              /\ value.tag = "Some"
              /\ value.val.tag = input.multi[arg.name].tag
              /\ value.val = input.multi[arg.name]
        /\ (input.tag = "Multi" /\ arg.name \notin DOMAIN input.multi) => value.tag = "None"

\* a Single asked for a name other than the default one
C10_Witness ==
    /\ itype = "VectorStruct"
    /\ After(<<"VectorStruct::get">>)
    /\ input.tag = "Single"
    /\ arg.name # ""
    /\ value.tag = "None"

\* C11: a Single batch of n dense vectors yields under
\* into_all_vectors(num_records) exactly n collections in the order of the
\* list, the i-th mapping the default name alone to the i-th dense vector,
\* whatever num_records is.
C11_SingleBatch ==
    (/\ itype = "BatchVectorStruct"
     /\ After(<<"BatchVectorStruct::into_all_vectors">>)
     /\ input.tag = "Single") =>
        /\ vtype = "Vec<NamedVectors>"
        /\ Len(value) = Len(input.single)
        /\ \A i \in 1..Len(input.single) :
              /\ DOMAIN value[i] = {DEFAULT_VECTOR_NAME}
              /\ value[i][DEFAULT_VECTOR_NAME] = Vector_Dense(input.single[i])

\* two different dense vectors, converted with a num_records below two
C11_Witness ==
    /\ itype = "BatchVectorStruct"
    /\ After(<<"BatchVectorStruct::into_all_vectors">>)
    /\ input.tag = "Single"
    /\ Len(input.single) = 2
    /\ input.single[1] # input.single[2]
    /\ arg.num_records < 2
    /\ Len(value) = 2

\* the selector form of a message: "Points", "Filter", or "None" when the
\* structured selector is absent
SelectorForm(msg) ==
    IF msg.points_selector.tag = "None"
    THEN "None"
    ELSE msg.points_selector.val.points_selector_one_of.val.tag

\* the selector rule for an operation op (its points and filter) and the
\* message msg built from it
SelectorRule(op, msg) ==
    /\ SelectorForm(msg) = "Filter" => op.points.tag = "None"
    /\ op.points.tag = "Some" =>
          /\ msg.points_selector = IdListSelector(op.points.val)
          /\ msg.points = PointIds_into(op.points.val)
    /\ (op.points.tag = "None" /\ op.filter.tag = "Some") =>
          /\ msg.points_selector = Some(FilterSelector(op.filter.val))
          /\ msg.points = <<>>
    /\ (op.points.tag = "None" /\ op.filter.tag = "None") =>
          /\ msg.points_selector = None
          /\ msg.points = <<>>
    /\ SelectorForm(msg) = "Points" =>
          msg.points = msg.points_selector.val.points_selector_one_of.val.points.ids
    /\ SelectorForm(msg) # "Points" => msg.points = <<>>

\* C12: in internal_set_payload and internal_delete_payload the filter form
\* of the selector is used only when no id list is supplied (a supplied list,
\* even an empty one, wins over a filter, which is dropped), and the legacy
\* flat id field equals the selector's id list in the id-list form and is
\* empty in the filter form and when neither was supplied, the structured
\* selector then being absent.
C12_SelectorRule ==
    /\ After(<<"internal_set_payload">>) =>
          SelectorRule(input.set_payload, value.set_payload_points.val)
    /\ After(<<"internal_delete_payload">>) =>
          SelectorRule(input.delete_payload, value.delete_payload_points.val)

\* delete-payload with an empty id list and a filter: the id-list form, empty
C12_Witness ==
    /\ After(<<"internal_delete_payload">>)
    /\ input.delete_payload.points = Some(<<>>)
    /\ input.delete_payload.filter.tag = "Some"
    /\ SelectorForm(value.delete_payload_points.val) = "Points"
    /\ value.delete_payload_points.val.points = <<>>

\* C13: internal_create_index copies the field name unchanged; without a
\* field schema the message has neither a field type nor index parameters;
\* with a bare scalar type it has the corresponding field type and no index
\* parameters; with text index parameters it has field type Text and those
\* parameters.  Index parameters are present only with field type Text.
C13_CreateIndex ==
    After(<<"internal_create_index">>) =>
        LET msg == value.create_field_index_collection.val
            schema == input.create_index.field_schema
        IN  /\ msg.field_name = input.create_index.field_name
            /\ schema.tag = "None" =>
                  (msg.field_type = None /\ msg.field_index_params = None)
            /\ (schema.tag = "Some" /\ schema.val.tag = "FieldType") =>
                  /\ msg.field_type = Some(FieldType_as_i32(schema.val.field_type))
                  /\ msg.field_index_params = None
            /\ (schema.tag = "Some" /\ schema.val.tag = "FieldParams") =>
                  /\ msg.field_type = Some(FieldType_as_i32("Text"))
                  /\ msg.field_index_params =
                        Some(TextIndexParams_into(schema.val.field_params.text))
            /\ msg.field_index_params.tag = "Some" =>
                  msg.field_type = Some(FieldType_as_i32("Text"))

\* a bare Geo type: the Geo field type, no index parameters
C13_Witness ==
    /\ After(<<"internal_create_index">>)
    /\ input.create_index.field_schema = Some(PayloadFieldSchema_FieldType("Geo"))
    /\ value.create_field_index_collection.val.field_type = Some(FieldType_as_i32("Geo"))
    /\ value.create_field_index_collection.val.field_index_params = None

====
